---- MODULE Spec2Model ----
(***************************************************************************)
(* A model of form.Form (src/form.py) and of the Form 1040 calculators     *)
(* built on it (src/2020f1040.py, src/2021f1040.py, src/2022f1040.py).     *)
(*                                                                         *)
(* Python strings are modelled as sequences of one-character strings, so   *)
(* that prefixes, suffixes and digit runs are computed as the code does.   *)
(* The backing dictionary is a sequence of (key, value) records in         *)
(* insertion order, as a Python dict keeps them.                           *)
(***************************************************************************)
EXTENDS Integers, Sequences, FiniteSets

VARIABLES cls, name, backing, last

vars == <<cls, name, backing, last>>

(***************************************************************************)
(* Constants of form.py.                                                   *)
(***************************************************************************)
MAX_LINE_NUMBER == 1000

WIDTH == 79

(***************************************************************************)
(* Bounds of the model.                                                    *)
(***************************************************************************)
\* Largest number of entries a form is given by set.
MaxEntries == 2

\* Largest number of income lines written on the 2021 Federal form.
MaxIncomeWritten == 2

\* Largest number of input lines written on a Federal form of any year.
MaxWritten == 1

(***************************************************************************)
(* Characters and strings.                                                 *)
(***************************************************************************)
\* The characters the model uses, in code point order (Python compares
\* strings by code point).
CodePoints ==
  <<"-", "0", "1", "2", "3", "4", "5", "6", "7", "8", "9",
    "F", "T", "Z",
    "a", "b", "c", "d", "e", "f", "g", "h", "l", "o", "r", "s", "u", "z">>

Ord(c) == CHOOSE i \in 1..Len(CodePoints) : CodePoints[i] = c

DigitChars == <<"0", "1", "2", "3", "4", "5", "6", "7", "8", "9">>

DigitSet == {"0", "1", "2", "3", "4", "5", "6", "7", "8", "9"}

IsDigitChar(c) == c \in DigitSet

DigitValue(c) ==
  CASE c = "0" -> 0 [] c = "1" -> 1 [] c = "2" -> 2 [] c = "3" -> 3 [] c = "4" -> 4
    [] c = "5" -> 5 [] c = "6" -> 6 [] c = "7" -> 7 [] c = "8" -> 8 [] c = "9" -> 9

\* str.isdigit(): non-empty and every character a digit.
isdigit(s) == Len(s) > 0 /\ \A i \in 1..Len(s) : IsDigitChar(s[i])

\* int(s) for a string of digits.
RECURSIVE int(_)
int(s) ==
  IF Len(s) = 0 THEN 0
  ELSE 10 * int(SubSeq(s, 1, Len(s) - 1)) + DigitValue(s[Len(s)])

\* str(n) for a non-negative integer.
RECURSIVE StrNat(_)
StrNat(n) ==
  IF n < 10 THEN <<DigitChars[n + 1]>>
  ELSE StrNat(n \div 10) \o <<DigitChars[(n % 10) + 1]>>

\* str(n) for an integer.
str(n) == IF n < 0 THEN <<"-">> \o StrNat(0 - n) ELSE StrNat(n)

\* a < b for Python strings: lexicographic by code point.
RECURSIVE StrLess(_, _)
StrLess(a, b) ==
  IF Len(b) = 0 THEN FALSE
  ELSE IF Len(a) = 0 THEN TRUE
  ELSE IF a[1] = b[1] THEN StrLess(Tail(a), Tail(b))
  ELSE Ord(a[1]) < Ord(b[1])

(***************************************************************************)
(* Values.  Every value is a record of the same shape; t is the Python     *)
(* type.  A Decimal and an int carry n, a float carries n (a whole         *)
(* number), a str carries s, a bool carries b.                             *)
(***************************************************************************)
Val(t, n, s, b) == [t |-> t, n |-> n, s |-> s, b |-> b]

DecimalV(n) == Val("Decimal", n, <<>>, FALSE)

IntV(n) == Val("int", n, <<>>, FALSE)

FloatV(n) == Val("float", n, <<>>, FALSE)

StrV(s) == Val("str", 0, s, FALSE)

BoolV(b) == Val("bool", 0, <<>>, b)

NoneV == Val("NoneType", 0, <<>>, FALSE)

ListV == Val("list", 0, <<>>, FALSE)

DictV == Val("dict", 0, <<>>, FALSE)

ZERO == DecimalV(0)

\* The outcome of a call: the exception raised ("none" when it returns) and
\* what it returns or leaves behind.
Outcome(raised, result) == [raised |-> raised, result |-> result]

\* decimal.Decimal(value) under the default context, for the values of the
\* model: an int, a whole float and a string of digits (with an optional
\* minus sign) convert; any other string signals InvalidOperation; None and
\* a dict are a TypeError; a list is read as a (sign, digits, exponent)
\* triple and the empty list is a ValueError.
Decimal(value) ==
  CASE value.t = "Decimal" -> Outcome("none", value)
    [] value.t \in {"int", "float"} -> Outcome("none", DecimalV(value.n))
    [] value.t = "bool" -> Outcome("none", DecimalV(IF value.b THEN 1 ELSE 0))
    [] value.t = "str" ->
         IF isdigit(value.s)
           THEN Outcome("none", DecimalV(int(value.s)))
         ELSE IF Len(value.s) > 1 /\ value.s[1] = "-" /\ isdigit(Tail(value.s))
           THEN Outcome("none", DecimalV(0 - int(Tail(value.s))))
         ELSE Outcome("InvalidOperation", value)
    [] value.t = "list" -> Outcome("ValueError", value)
    [] OTHER -> Outcome("TypeError", value)

(***************************************************************************)
(* Form._line_number_to_key and Form._natural_sort_key.                    *)
(***************************************************************************)
\* A faulty variant of _line_number_to_key that takes a float for an int
\* (isinstance(line_number, (int, float))); C7 must tell it apart.
LineNumberToKeyTakingFloat(line_number) ==
  IF line_number.t \in {"int", "bool", "float"}
    THEN Outcome("none",
                 IF line_number.t \in {"int", "float"} THEN str(line_number.n)
                 ELSE IF line_number.b THEN <<"T", "r", "u", "e">>
                 ELSE <<"F", "a", "l", "s", "e">>)
  ELSE IF line_number.t = "str"
    THEN IF Len(line_number.s) <= 0
           THEN Outcome("ValueError", <<>>)
           ELSE Outcome("none", line_number.s)
  ELSE Outcome("TypeError", <<>>)

_line_number_to_key(line_number) ==
  IF line_number.t \in {"int", "bool"}
    THEN Outcome("none",
                 IF line_number.t = "int" THEN str(line_number.n)
                 ELSE IF line_number.b THEN <<"T", "r", "u", "e">>
                 ELSE <<"F", "a", "l", "s", "e">>)
  ELSE IF line_number.t = "str"
    THEN IF Len(line_number.s) <= 0
           THEN Outcome("ValueError", <<>>)
           ELSE Outcome("none", line_number.s)
  ELSE Outcome("TypeError", <<>>)

RECURSIVE NaturalSortKeyFrom(_, _)
NaturalSortKeyFrom(line_number, i) ==
  IF i > 0
    THEN IF isdigit(SubSeq(line_number, 1, i))
           THEN <<int(SubSeq(line_number, 1, i)),
                  SubSeq(line_number, i + 1, Len(line_number))>>
           ELSE NaturalSortKeyFrom(line_number, i - 1)
    ELSE <<MAX_LINE_NUMBER, line_number>>

_natural_sort_key(line_number) ==
  NaturalSortKeyFrom(line_number, Len(line_number))

\* x < y for the (int, str) tuples _natural_sort_key returns.
TupleLess(x, y) == x[1] < y[1] \/ (x[1] = y[1] /\ StrLess(x[2], y[2]))

\* list.sort(key=Form._natural_sort_key) computes the key of every element
\* once and sorts the elements by their keys; the sort is stable, and with
\* reverse it sorts descending and still keeps equal elements in their
\* original order.  Decorated pairs each line number with its key.
Decorated(line_numbers) ==
  [i \in 1..Len(line_numbers) |->
     [line_number |-> line_numbers[i], key |-> _natural_sort_key(line_numbers[i])]]

\* x goes before the elements of sorted that must follow it, which are the
\* last ones: those with a greater key (with reverse: a smaller key).
InsertSorted(sorted, x, reverse) ==
  LET after == {i \in 1..Len(sorted) :
                  IF reverse THEN TupleLess(sorted[i].key, x.key)
                  ELSE TupleLess(x.key, sorted[i].key)}
      p == Len(sorted) - Cardinality(after)
  IN SubSeq(sorted, 1, p) \o <<x>> \o SubSeq(sorted, p + 1, Len(sorted))

RECURSIVE SortDecorated(_, _, _)
SortDecorated(decorated, n, reverse) ==
  IF n = 0 THEN <<>>
  ELSE InsertSorted(SortDecorated(decorated, n - 1, reverse), decorated[n], reverse)

sort(line_numbers, reverse) ==
  LET sorted == SortDecorated(Decorated(line_numbers), Len(line_numbers), reverse)
  IN [i \in 1..Len(sorted) |-> sorted[i].line_number]

(***************************************************************************)
(* The backing dictionary.                                                 *)
(***************************************************************************)
\* list(self.backing.keys())
keys(b) == [i \in 1..Len(b) |-> b[i].key]

\* key in self.backing
Has(b, key) == \E i \in 1..Len(b) : b[i].key = key

\* self.backing[key]
Lookup(b, key) == b[CHOOSE i \in 1..Len(b) : b[i].key = key].value

\* self.backing[key] = value: a new key goes to the end, a stored key keeps
\* its place.
Store(b, key, value) ==
  IF Has(b, key)
    THEN [i \in 1..Len(b) |->
            IF b[i].key = key THEN [key |-> key, value |-> value] ELSE b[i]]
    ELSE Append(b, [key |-> key, value |-> value])

\* del self.backing[key]
Remove(b, key) == SelectSeq(b, LAMBDA e : e.key # key)

(***************************************************************************)
(* The mapping operations of Form.  Each returns an Outcome: get the value *)
(* read, set and delete the new backing dictionary.                        *)
(***************************************************************************)
__getitem__(b, line_number) ==
  LET key == _line_number_to_key(line_number)
  IN IF key.raised # "none" THEN Outcome(key.raised, ZERO)
     ELSE IF Has(b, key.result) THEN Outcome("none", Lookup(b, key.result))
     ELSE Outcome("none", ZERO)

\* A faulty variant of __setitem__ without the test for bool, which converts
\* True to Decimal(1); C4 must tell it apart.
SetItemConvertingBool(b, line_number, value) ==
  LET key == _line_number_to_key(line_number)
      converted == Decimal(value)
  IN IF key.raised # "none" THEN Outcome(key.raised, b)
     ELSE IF value.t # "Decimal"
       THEN IF converted.raised = "none"
              THEN Outcome("none", Store(b, key.result, converted.result))
            ELSE IF converted.raised = "InvalidOperation"
              THEN Outcome("none", Store(b, key.result, value))
            ELSE Outcome(converted.raised, b)
     ELSE Outcome("none", Store(b, key.result, value))

__setitem__(b, line_number, value) ==
  LET key == _line_number_to_key(line_number)
      converted == Decimal(value)
  IN IF key.raised # "none" THEN Outcome(key.raised, b)
     ELSE IF value.t = "bool" THEN Outcome("none", Store(b, key.result, value))
     ELSE IF value.t # "Decimal"
       THEN IF converted.raised = "none"
              THEN Outcome("none", Store(b, key.result, converted.result))
            ELSE IF converted.raised = "InvalidOperation"
              THEN Outcome("none", Store(b, key.result, value))
            ELSE Outcome(converted.raised, b)
     ELSE Outcome("none", Store(b, key.result, value))

__delitem__(b, line_number) ==
  LET key == _line_number_to_key(line_number)
  IN IF key.raised # "none" THEN Outcome(key.raised, b)
     ELSE IF Has(b, key.result) THEN Outcome("none", Remove(b, key.result))
     ELSE Outcome("none", b)

\* The loop of __len__: the first line number of the list whose numeric
\* prefix is below MAX_LINE_NUMBER, or 0.
RECURSIVE FirstNumeric(_, _)
FirstNumeric(line_numbers, i) ==
  IF i > Len(line_numbers) THEN 0
  ELSE LET value == _natural_sort_key(line_numbers[i])[1]
       IN IF value < MAX_LINE_NUMBER THEN value
          ELSE FirstNumeric(line_numbers, i + 1)

__len__(b) == FirstNumeric(sort(keys(b), TRUE), 1)

\* A faulty variant of Discarded that discards a number only when the key
\* is that number's very text; the amended C2 must tell it apart.
DiscardedBareKeys(b) ==
  {int(b[i].key) : i \in {j \in 1..Len(b) : isdigit(b[j].key)}}
    \cap 0..(MAX_LINE_NUMBER - 1)

\* The numeric prefixes __iter__ discards from missing_set.
Discarded(b) ==
  {_natural_sort_key(b[i].key)[1] : i \in 1..Len(b)} \cap 0..(MAX_LINE_NUMBER - 1)

\* [str(i) for i in missing_set]
RECURSIVE StrEach(_)
StrEach(missing_set) ==
  IF missing_set = {} THEN <<>>
  ELSE LET i == CHOOSE x \in missing_set : \A y \in missing_set : x <= y
       IN <<str(i)>> \o StrEach(missing_set \ {i})

__iter__(b) ==
  LET missing_set == (1..__len__(b)) \ Discarded(b)
  IN sort(keys(b) \o StrEach(missing_set), FALSE)

(***************************************************************************)
(* The calculators.  A line is read with self[k] and written with          *)
(* self[k] = v, that is through __getitem__ and __setitem__.  The          *)
(* arithmetic is that of Decimal on whole amounts.                         *)
(***************************************************************************)
\* A line number written as an int (self[9]) and as a str (self['2b']).
L(n) == IntV(n)

S(n, c) == StrV(str(n) \o <<c>>)

item(b, line_number) == __getitem__(b, line_number).result

setitem(b, line_number, value) == __setitem__(b, line_number, value).result

\* self[k1] + self[k2] + ... , left to right.
RECURSIVE Sum(_, _)
Sum(b, line_numbers) ==
  IF Len(line_numbers) = 1 THEN item(b, line_numbers[1])
  ELSE DecimalV(Sum(b, SubSeq(line_numbers, 1, Len(line_numbers) - 1)).n
                + item(b, line_numbers[Len(line_numbers)]).n)

\* self[k1] - self[k2]
Difference(b, k1, k2) == DecimalV(item(b, k1).n - item(b, k2).n)

\* The statements of a calculate() method:
\*   sum         self[target] = self[a1] + self[a2] + ...
\*   difference  self[target] = self[a1] - self[a2]
\*   constant    self[target] = n
\*   floor       if self[target] <= 0: self[target] = 0
\*   excess      if self[a1] > self[a2]: self[target] = self[a1] - self[a2]
Statement(op, target, args, n) == [op |-> op, target |-> target, args |-> args, n |-> n]

Execute(b, st) ==
  CASE st.op = "sum" -> setitem(b, st.target, Sum(b, st.args))
    [] st.op = "difference" ->
         setitem(b, st.target, Difference(b, st.args[1], st.args[2]))
    [] st.op = "constant" -> setitem(b, st.target, IntV(st.n))
    [] st.op = "floor" ->
         IF item(b, st.target).n <= 0 THEN setitem(b, st.target, IntV(0)) ELSE b
    [] OTHER ->
         IF item(b, st.args[1]).n > item(b, st.args[2]).n
           THEN setitem(b, st.target, Difference(b, st.args[1], st.args[2]))
           ELSE b

\* The statements run one after the other (the test on the length makes TLC
\* evaluate each statement before the next).
RECURSIVE Run(_, _, _)
Run(b, statements, i) ==
  IF i > Len(statements) THEN b
  ELSE LET after == Execute(b, statements[i])
       IN IF Len(after) >= 0 THEN Run(after, statements, i + 1) ELSE after

\* A faulty variant of IncomeLines that leaves out line 6b; C8 must tell it
\* apart.
IncomeLinesWithout6b ==
  <<L(1), S(2, "b"), S(3, "b"), S(4, "b"), S(5, "b"), L(7), L(8)>>

\* The lines added into line 9 (total income) in 2020 and 2021, and in 2022.
IncomeLines ==
  <<L(1), S(2, "b"), S(3, "b"), S(4, "b"), S(5, "b"), S(6, "b"), L(7), L(8)>>

IncomeLines2022 ==
  <<S(1, "z"), S(2, "b"), S(3, "b"), S(4, "b"), S(5, "b"), S(6, "b"), L(7), L(8)>>

\* Lines 15 to 37, which the three years compute alike but for the lines
\* added into line 32.
Lines15To37(otherPayments) ==
  <<Statement("difference", L(15), <<L(11), L(14)>>, 0),
    Statement("floor", L(15), <<>>, 0),
    Statement("sum", L(18), <<L(16), L(17)>>, 0),
    Statement("sum", L(21), <<L(19), L(20)>>, 0),
    Statement("difference", L(22), <<L(18), L(21)>>, 0),
    Statement("floor", L(22), <<>>, 0),
    Statement("sum", L(24), <<L(22), L(23)>>, 0),
    Statement("sum", S(25, "d"), <<S(25, "a"), S(25, "b"), S(25, "c")>>, 0),
    Statement("sum", L(32), otherPayments, 0),
    Statement("sum", L(33), <<S(25, "d"), L(26), L(32)>>, 0),
    Statement("excess", L(34), <<L(33), L(24)>>, 0),
    Statement("difference", L(37), <<L(24), L(33)>>, 0)>>

calculate2020(b) ==
  Run(b,
      <<Statement("sum", L(9), IncomeLines, 0),
        Statement("sum", S(10, "c"), <<S(10, "a"), S(10, "b")>>, 0),
        Statement("difference", L(11), <<L(9), S(10, "c")>>, 0),
        Statement("constant", L(12), <<>>, 12400),
        Statement("sum", L(14), <<L(12), L(13)>>, 0)>>
      \o Lines15To37(<<L(27), L(28), L(29), L(30), L(31)>>),
      1)

calculate2021(b) ==
  Run(b,
      <<Statement("sum", L(9), IncomeLines, 0),
        Statement("difference", L(11), <<L(9), L(10)>>, 0),
        Statement("sum", S(12, "c"), <<S(12, "a"), S(12, "b")>>, 0),
        Statement("sum", L(14), <<S(12, "c"), L(13)>>, 0)>>
      \o Lines15To37(<<S(27, "a"), L(28), L(29), L(30), L(31)>>),
      1)

calculate2022(b) ==
  Run(b,
      <<Statement("sum", S(1, "z"),
                  <<S(1, "a"), S(1, "b"), S(1, "c"), S(1, "d"),
                    S(1, "e"), S(1, "f"), S(1, "g"), S(1, "h")>>, 0),
        Statement("sum", L(9), IncomeLines2022, 0),
        Statement("difference", L(11), <<L(9), L(10)>>, 0),
        Statement("sum", L(14), <<L(12), L(13)>>, 0)>>
      \o Lines15To37(<<L(27), L(28), L(29), L(31)>>),
      1)

\* self.calculate(), dispatched on the class of the form; a no-op in Form.
calculate(c, b) ==
  CASE c = "Federal2020" -> calculate2020(b)
    [] c = "Federal2021" -> calculate2021(b)
    [] c = "Federal2022" -> calculate2022(b)
    [] OTHER -> b

\* Federal.__init__: the standard deduction the constructor writes.
FederalInit(c) ==
  CASE c = "Federal2021" -> setitem(<<>>, S(12, "a"), IntV(12550))
    [] c = "Federal2022" -> setitem(<<>>, L(12), IntV(12950))
    [] OTHER -> <<>>

\* __doc__ of the module of each Federal class.
FederalName(c) ==
  CASE c = "Federal2020" -> "Form 1040 U.S. Individual Income Tax Return 2020."
    [] c = "Federal2021" -> "Form 1040 U.S. Individual Income Tax Return 2021."
    [] OTHER -> "Form 1040 U.S. Individual Income Tax Return 2022."

(***************************************************************************)
(* Form.print.  What is printed is a sequence of lines: the name, the      *)
(* rule of WIDTH dashes, and a row per key, right-aligned to width.        *)
(***************************************************************************)
Line(kind, text, key, width, value) ==
  [kind |-> kind, text |-> text, key |-> key, width |-> width, value |-> value]

\* max(len(key) for key in self), for a non-empty iteration.
MaxLen(ks) ==
  CHOOSE w \in {Len(ks[i]) : i \in 1..Len(ks)} : \A i \in 1..Len(ks) : Len(ks[i]) <= w

\* The lines print() writes once calculate() has run and the keys have been
\* iterated: max() of an empty iteration raises ValueError before anything
\* is printed.
PrintLines(nm, calculated, ks) ==
  IF Len(ks) = 0
    THEN [raised |-> "ValueError", result |-> calculated, out |-> <<>>]
    ELSE [raised |-> "none", result |-> calculated,
          out |-> <<Line("name", nm, <<>>, 0, ZERO),
                    Line("rule", "-", <<>>, WIDTH, ZERO)>>
                  \o [i \in 1..Len(ks) |->
                        Line("row", "", ks[i], MaxLen(ks), item(calculated, StrV(ks[i])))]]

\* The form once self.calculate() has run, handed to the rest of print().
PrintCalculated(nm, calculated) == PrintLines(nm, calculated, __iter__(calculated))

print(c, nm, b) == PrintCalculated(nm, calculate(c, b))

(***************************************************************************)
(* The state: the class of the form (which calculate() it runs), its name, *)
(* its backing dictionary, and the last call made on it: the operation,    *)
(* its arguments (None where it has none) and its outcome (the exception   *)
(* raised, the value, length or keys returned, the lines printed).         *)
(***************************************************************************)
Last(op, key, val, raised, value, n, ks, out) ==
  [op |-> op, key |-> key, val |-> val, raised |-> raised,
   value |-> value, n |-> n, keys |-> ks, out |-> out]

\* The line numbers the calls are given: ints, strings, and the rejected
\* empty string, None and float.
ValidLineNumbers ==
  {IntV(2), StrV(<<"2">>), StrV(<<"1", "2", "a">>), IntV(1001), StrV(<<"f", "o", "o">>)}

InvalidLineNumbers == {StrV(<<>>), NoneV, FloatV(42)}

LineNumbers == ValidLineNumbers \cup InvalidLineNumbers

\* Line numbers that are read but never written.
ReadLineNumbers == LineNumbers \cup {IntV(50)}

\* The values written.
Values ==
  {IntV(13), StrV(<<"1", "3">>), BoolV(TRUE), StrV(<<"b", "a", "z">>), NoneV}

Init ==
  /\ cls = "Form"
  /\ name = "foobar"
  /\ backing = <<>>
  /\ last = Last("init", NoneV, NoneV, "none", ZERO, 0, <<>>, <<>>)

\* A faulty variant of Get that stores the zero it returns for a line with
\* no entry (as setdefault would); C10 must tell it apart.
GetStoringDefault(line_number) ==
  LET r == __getitem__(backing, line_number)
      key == _line_number_to_key(line_number)
  IN /\ last' = Last("get", line_number, NoneV, r.raised, r.result, 0, <<>>, <<>>)
     /\ backing' = IF key.raised = "none" /\ ~Has(backing, key.result)
                     THEN Store(backing, key.result, ZERO)
                     ELSE backing
     /\ UNCHANGED <<cls, name>>

Get(line_number) ==
  LET r == __getitem__(backing, line_number)
  IN /\ last' = Last("get", line_number, NoneV, r.raised, r.result, 0, <<>>, <<>>)
     /\ UNCHANGED <<cls, name, backing>>

Set(line_number, value) ==
  LET r == __setitem__(backing, line_number, value)
  IN /\ Len(r.result) <= MaxEntries
     /\ backing' = r.result
     /\ last' = Last("set", line_number, value, r.raised, ZERO, 0, <<>>, <<>>)
     /\ UNCHANGED <<cls, name>>

Delete(line_number) ==
  LET r == __delitem__(backing, line_number)
  IN /\ backing' = r.result
     /\ last' = Last("delete", line_number, NoneV, r.raised, ZERO, 0, <<>>, <<>>)
     /\ UNCHANGED <<cls, name>>

Iterate ==
  /\ last' = Last("iterate", NoneV, NoneV, "none", ZERO, 0, __iter__(backing), <<>>)
  /\ UNCHANGED <<cls, name, backing>>

Size ==
  /\ last' = Last("size", NoneV, NoneV, "none", ZERO, __len__(backing), <<>>, <<>>)
  /\ UNCHANGED <<cls, name, backing>>

PrintForm ==
  LET r == print(cls, name, backing)
  IN /\ backing' = r.result
     /\ last' = Last("print", NoneV, NoneV, r.raised, ZERO, 0, <<>>, r.out)
     /\ UNCHANGED <<cls, name>>

Next ==
  \/ \E line_number \in ReadLineNumbers : Get(line_number)
  \/ \E line_number \in LineNumbers, value \in Values : Set(line_number, value)
  \/ \E line_number \in LineNumbers : Delete(line_number)
  \/ Iterate
  \/ Size
  \/ PrintForm

Spec == Init /\ [][Next]_vars

(***************************************************************************)
(* A Federal form: input lines are written and calculate() is called.      *)
(***************************************************************************)
Classes == {"Federal2020", "Federal2021", "Federal2022"}

\* The lines every year's calculate() reads and does not write.
CommonInputs ==
  {S(2, "b"), S(3, "b"), S(4, "b"), S(5, "b"), S(6, "b"), L(7), L(8),
   L(13), L(16), L(17), L(19), L(20), L(23),
   S(25, "a"), S(25, "b"), S(25, "c"), L(26), L(28), L(29), L(31)}

InputLines2020 == CommonInputs \cup {L(1), S(10, "a"), S(10, "b"), L(27), L(30)}

InputLines2021 ==
  CommonInputs \cup {L(1), L(10), S(12, "a"), S(12, "b"), S(27, "a"), L(30)}

InputLines2022 ==
  CommonInputs \cup {S(1, "a"), S(1, "b"), S(1, "c"), S(1, "d"), S(1, "e"),
                     S(1, "f"), S(1, "g"), S(1, "h"), L(10), L(12), L(27)}

InputLines(c) ==
  CASE c = "Federal2020" -> InputLines2020
    [] c = "Federal2021" -> InputLines2021
    [] OTHER -> InputLines2022

\* The lines of total income written on the 2021 form.
IncomeInputs ==
  {L(1), S(2, "b"), S(3, "b"), S(4, "b"), S(5, "b"), S(6, "b"), L(7), L(8)}

\* The keys of a set of line numbers.
KeysOf(line_numbers) == {_line_number_to_key(k).result : k \in line_numbers}

InputKeys2020 == KeysOf(InputLines2020)

InputKeys2021 == KeysOf(InputLines2021)

InputKeys2022 == KeysOf(InputLines2022)

InputKeys(c) ==
  CASE c = "Federal2020" -> InputKeys2020
    [] c = "Federal2021" -> InputKeys2021
    [] OTHER -> InputKeys2022

\* The amounts written on input lines.
Amounts == {DecimalV(0), DecimalV(10)}

\* The number of input lines that hold an entry, the one the constructor
\* wrote not counted.
Written(c, b) ==
  Cardinality({i \in 1..Len(b) : b[i].key \in InputKeys(c)}) - Len(FederalInit(c))

InitFederal ==
  /\ cls \in Classes
  /\ name = FederalName(cls)
  /\ backing = FederalInit(cls)
  /\ last = Last("init", NoneV, NoneV, "none", ZERO, 0, <<>>, <<>>)

Init2021 == InitFederal /\ cls = "Federal2021"

Write(line_number, value, limit) ==
  LET r == __setitem__(backing, line_number, value)
  IN /\ Written(cls, r.result) <= limit
     /\ backing' = r.result
     /\ last' = Last("set", line_number, value, r.raised, ZERO, 0, <<>>, <<>>)
     /\ UNCHANGED <<cls, name>>

Calculate ==
  /\ backing' = calculate(cls, backing)
  /\ last' = Last("calculate", NoneV, NoneV, "none", ZERO, 0, <<>>, <<>>)
  /\ UNCHANGED <<cls, name>>

NextFederal ==
  \/ \E line_number \in InputLines(cls), value \in Amounts :
       Write(line_number, value, MaxWritten)
  \/ Calculate

SpecFederal == InitFederal /\ [][NextFederal]_vars

Next2021 ==
  \/ \E line_number \in IncomeInputs, value \in Amounts :
       Write(line_number, value, MaxIncomeWritten)
  \/ Calculate

Spec2021 == Init2021 /\ [][Next2021]_vars

(***************************************************************************)
(* Vocabulary of the properties.                                           *)
(***************************************************************************)
\* get(k) in a state.
read(b, line_number) == __getitem__(b, line_number).result

\* The number of digits a key begins with, and the integer they spell.
DigitRun(key) ==
  Cardinality({i \in 1..Len(key) : \A j \in 1..i : IsDigitChar(key[j])})

BeginsWithDigit(key) == DigitRun(key) > 0

LeadingInt(key) == int(SubSeq(key, 1, DigitRun(key)))

Suffix(key) == SubSeq(key, DigitRun(key) + 1, Len(key))

Max(numbers) == CHOOSE n \in numbers : \A m \in numbers : m <= n

\* The leading-digit prefixes of the stored keys that begin with a digit.
StoredPrefixes(b) ==
  {LeadingInt(b[i].key) : i \in {j \in 1..Len(b) : BeginsWithDigit(b[j].key)}}

StoredKeys(b) == {b[i].key : i \in 1..Len(b)}

\* The decimal text of the integers the model uses as line numbers.
DecimalText(n) ==
  CASE n = 2 -> <<"2">>
    [] n = 50 -> <<"5", "0">>
    [] n = 1001 -> <<"1", "0", "0", "1">>

\* The text a valid line number addresses.
LineText(line_number) ==
  IF line_number.t = "int" THEN DecimalText(line_number.n) ELSE line_number.s

\* The elements of a sequence, and whether none occurs twice.
Range(seq) == {seq[i] : i \in 1..Len(seq)}

NoRepeats(seq) == Cardinality(Range(seq)) = Len(seq)

\* The sequence is in non-decreasing order of the natural sort key.
NonDecreasing(ks) ==
  \A i \in 1..(Len(ks) - 1) :
    ~TupleLess(_natural_sort_key(ks[i + 1]), _natural_sort_key(ks[i]))

(***************************************************************************)
(* C1.  size() is the largest leading-digit prefix among the stored keys   *)
(* that begin with a digit, whatever its size (also 1000 and above), and 0 *)
(* when no stored key begins with a digit.                                 *)
(***************************************************************************)
C1_SizeIsLargestPrefix ==
  last.op = "size" =>
    last.n = (IF StoredPrefixes(backing) = {} THEN 0 ELSE Max(StoredPrefixes(backing)))

(***************************************************************************)
(* C2.  As claimed: iterate() yields exactly the stored keys and the       *)
(* decimal text of every i in 1..size() with no entry under the key        *)
(* str(i), in non-decreasing order of the natural sort key.                *)
(***************************************************************************)
C2_IterateFillsEveryBareLine ==
  last.op = "iterate" =>
    /\ Range(last.keys) =
         StoredKeys(backing)
         \cup {str(i) : i \in {j \in 1..__len__(backing) : str(j) \notin StoredKeys(backing)}}
    /\ NoRepeats(last.keys)
    /\ NonDecreasing(last.keys)

(***************************************************************************)
(* C2, amended.  iterate() yields exactly the stored keys and the decimal  *)
(* text of every i in 1..size() that is the leading-digit prefix of no     *)
(* stored key (a stored "12a" stands for line 12, and "12" is then not     *)
(* synthesized), each once, in non-decreasing order of the natural sort    *)
(* key; a key with no leading digits is never synthesized.                 *)
(***************************************************************************)
C2_IterateFillsUnprefixedLines ==
  last.op = "iterate" =>
    /\ Range(last.keys) =
         StoredKeys(backing)
         \cup {str(i) : i \in (1..__len__(backing)) \ StoredPrefixes(backing)}
    /\ NoRepeats(last.keys)
    /\ NonDecreasing(last.keys)
    /\ \A i \in 1..Len(last.keys) :
         ~BeginsWithDigit(last.keys[i]) => last.keys[i] \in StoredKeys(backing)

\* iterate() ran on a form that stores "12a" and not "12": lines 1 to 11 are
\* synthesized and "12" is not.
C2_Witness ==
  /\ last.op = "iterate"
  /\ <<"1", "2", "a">> \in StoredKeys(backing)
  /\ <<"1", "2">> \notin StoredKeys(backing)
  /\ <<"1", "1">> \in Range(last.keys)
  /\ <<"1", "2">> \notin Range(last.keys)
  /\ Len(last.keys) = 12

(***************************************************************************)
(* C3.  The natural sort key orders two keys that begin with digits by     *)
(* their leading integer and then by their suffix, puts every key with no  *)
(* leading digits after every key that begins with a digit (whatever the   *)
(* size of its prefix), and orders keys with no leading digits by their    *)
(* text.  Stated of every two keys of the form.                            *)
(***************************************************************************)
ClaimedBefore(x, y) ==
  IF BeginsWithDigit(x) /\ BeginsWithDigit(y)
    THEN \/ LeadingInt(x) < LeadingInt(y)
         \/ LeadingInt(x) = LeadingInt(y) /\ StrLess(Suffix(x), Suffix(y))
  ELSE IF BeginsWithDigit(x) THEN TRUE
  ELSE IF BeginsWithDigit(y) THEN FALSE
  ELSE StrLess(x, y)

C3_NaturalOrder ==
  \A x \in StoredKeys(backing) \cup Range(last.keys) :
    \A y \in StoredKeys(backing) \cup Range(last.keys) :
      TupleLess(_natural_sort_key(x), _natural_sort_key(y)) <=> ClaimedBefore(x, y)

(***************************************************************************)
(* C4.  get(k) returns the coerced value of the most recent set on the     *)
(* line of k that no delete of that line followed, and zero when there is  *)
(* none; an integer and its decimal text address the same line.  Stated    *)
(* step by step: every line reads zero at first; a set that returns makes  *)
(* its line read the decimal equivalent of a value that parses as a        *)
(* decimal and the boolean itself for a boolean, and changes no other      *)
(* line; a delete makes its line read zero and changes no other line; no   *)
(* other call, and no call that raises, changes what a line reads; and a   *)
(* get returns what its line reads.                                        *)
(***************************************************************************)
ValidKey(k) == k.t = "int" \/ (k.t = "str" /\ k.s # <<>>)

ParsesAsDecimal(value) ==
  \/ value.t \in {"int", "float", "Decimal"}
  \/ value.t = "str" /\ isdigit(value.s)

DecimalEquivalent(value) ==
  DecimalV(IF value.t = "str" THEN int(value.s) ELSE value.n)

SameLine(j, k) == LineText(j) = LineText(k)

ValidReads == ReadLineNumbers \ InvalidLineNumbers

OtherLinesKept(k) ==
  \A j \in ValidReads : ~SameLine(j, k) => read(backing', j) = read(backing, j)

AllLinesKept ==
  backing' = backing \/ \A j \in ValidReads : read(backing', j) = read(backing, j)

Wrote == last'.op = "set" /\ last'.raised = "none"

Deleted == last'.op = "delete" /\ last'.raised = "none"

C4_Step ==
  /\ Wrote =>
       /\ OtherLinesKept(last'.key)
       /\ \A j \in ValidReads :
            SameLine(j, last'.key) =>
              /\ last'.val.t = "bool" => read(backing', j) = last'.val
              /\ last'.val.t # "bool" /\ ParsesAsDecimal(last'.val) =>
                   read(backing', j) = DecimalEquivalent(last'.val)
  /\ Deleted =>
       /\ OtherLinesKept(last'.key)
       /\ \A j \in ValidReads : SameLine(j, last'.key) => read(backing', j) = ZERO
  /\ ~Wrote /\ ~Deleted => AllLinesKept
  /\ last'.op = "get" /\ last'.raised = "none" =>
       \A j \in ValidReads : SameLine(j, last'.key) => last'.value = read(backing', j)

C4_GetReturnsLastWrite ==
  /\ Init => \A j \in ValidReads : read(backing, j) = ZERO
  /\ [][C4_Step]_vars

\* Line 2 was written as the int 13 or the text "13" and reads the decimal
\* 13 under both 2 and "2"; line 12a was written as true, and a get of it
\* has just returned the boolean.
C4_Witness ==
  /\ last.op = "get"
  /\ last.key = StrV(<<"1", "2", "a">>)
  /\ last.value = BoolV(TRUE)
  /\ read(backing, IntV(2)) = DecimalV(13)
  /\ read(backing, StrV(<<"2">>)) = DecimalV(13)

(***************************************************************************)
(* C5.  set(k, v) with a valid key never raises because of the value: a    *)
(* value that does not convert to a decimal (unparsable text, None, a      *)
(* list) is stored as it is and get(k) returns it.                         *)
(***************************************************************************)
C5_UnconvertibleStoredVerbatim ==
  last.op = "set" /\ ValidKey(last.key)
    /\ last.val.t # "bool" /\ ~ParsesAsDecimal(last.val) =>
      /\ last.raised = "none"
      /\ read(backing, last.key) = last.val

(***************************************************************************)
(* C6.  delete (of a valid key), iterate, size and print raise no error in *)
(* any reachable state; print on the empty form prints the name and the    *)
(* rule and no rows.                                                       *)
(***************************************************************************)
C6_NoErrors ==
  /\ last.op = "delete" /\ ValidKey(last.key) => last.raised = "none"
  /\ last.op \in {"iterate", "size", "print"} => last.raised = "none"
  /\ last.op = "print" /\ backing = <<>> =>
       last.out = <<Line("name", name, <<>>, 0, ZERO),
                    Line("rule", "-", <<>>, WIDTH, ZERO)>>

(***************************************************************************)
(* C7.  get, set and delete with the empty string as key raise ValueError, *)
(* with a key that is neither an int nor a str raise TypeError, and in     *)
(* both cases leave the entries as they were.  Every int and every         *)
(* non-empty str is accepted (get and delete then raise nothing, and set   *)
(* raises nothing for a value Decimal() takes or rejects as unparsable     *)
(* text), the int addressing the entry under its decimal text.             *)
(***************************************************************************)
Rejected(k) ==
  /\ last'.raised = (IF k.t = "str" THEN "ValueError" ELSE "TypeError")
  /\ backing' = backing

Accepted(k) ==
  /\ last'.raised = "none"
  /\ last'.op = "set" =>
       /\ LineText(k) \in StoredKeys(backing')
       /\ read(backing', StrV(LineText(k))) = read(backing', k)
       /\ \A key \in StoredKeys(backing') : key = LineText(k) \/ key \in StoredKeys(backing)
  /\ last'.op = "get" => last'.value = read(backing, StrV(LineText(k)))
  /\ last'.op = "delete" => LineText(k) \notin StoredKeys(backing')

Convertible(value) == value.t \notin {"NoneType", "list", "dict"}

C7_Step ==
  last'.op \in {"get", "set", "delete"} =>
    IF ~ValidKey(last'.key) THEN Rejected(last'.key)
    ELSE (last'.op = "set" /\ ~Convertible(last'.val)) \/ Accepted(last'.key)

C8_TotalIncome ==
  last.op = "calculate" =>
    read(backing, L(9)) =
      DecimalV(read(backing, L(1)).n + read(backing, S(2, "b")).n
               + read(backing, S(3, "b")).n + read(backing, S(4, "b")).n
               + read(backing, S(5, "b")).n + read(backing, S(6, "b")).n
               + read(backing, L(7)).n + read(backing, L(8)).n)

\* calculate() ran with 10 on line 1 and an explicit 0 on line 2b, as in the
\* scenario: line 9 is 10.
C8_Witness ==
  /\ last.op = "calculate"
  /\ read(backing, L(1)) = DecimalV(10)
  /\ <<"2", "b">> \in StoredKeys(backing)
  /\ read(backing, S(2, "b")) = DecimalV(0)
  /\ read(backing, L(9)) = DecimalV(10)

(***************************************************************************)
(* C9.  On a Federal form of any year, right after each calculate(), line  *)
(* 34 is line 33 minus line 24 when line 33 is greater than line 24, and   *)
(* zero otherwise.                                                         *)
(***************************************************************************)
C9_Overpaid ==
  last.op = "calculate" =>
    read(backing, L(34)) =
      (IF read(backing, L(33)).n > read(backing, L(24)).n
         THEN DecimalV(read(backing, L(33)).n - read(backing, L(24)).n)
         ELSE ZERO)

(***************************************************************************)
(* C10.  get(k) never changes the entries: a read, also of a line with no  *)
(* entry (which returns zero), creates no entry, so size() and iterate()   *)
(* are the same before and after it.                                       *)
(***************************************************************************)
C10_Step ==
  last'.op = "get" =>
    /\ backing' = backing
    /\ ValidKey(last'.key) /\ LineText(last'.key) \notin StoredKeys(backing) =>
         /\ last'.value = ZERO
         /\ LineText(last'.key) \notin StoredKeys(backing')
         /\ __len__(backing') = __len__(backing)
         /\ __iter__(backing') = __iter__(backing)

C10_GetChangesNothing == [][C10_Step]_vars

\* Line 50 has just been read as zero on a form whose size() is 12.
C10_Witness ==
  /\ last.op = "get"
  /\ last.key = IntV(50)
  /\ last.value = ZERO
  /\ __len__(backing) = 12
  /\ Len(__iter__(backing)) = 12

====
